---- MODULE Spec2Model ----
(***************************************************************************)
(* A model of the gobayeux v2 client: the Bayeux protocol client           *)
(* (BayeuxClientT), the connection state machine it drives, and the        *)
(* session loop of the high-level Client (start / poll) together with the  *)
(* goroutines that feed it.                                                *)
(*                                                                         *)
(* The specifications share the variables:                                 *)
(*   ClientSpec     the protocol client driven directly, one call at a     *)
(*                  time;                                                  *)
(*   Spec           the session loop, its callers and its delayed tasks;   *)
(*   SubscribeSpec  the same with callers that subscribe, disconnect and   *)
(*                  cancel, but never unsubscribe;                         *)
(*   ExtensionSpec  the extension list and the hooks around a request;     *)
(*   WsSpec         the websocket transport: request calls against listen  *)
(*                  and its read loop;                                     *)
(*   WsSeqSpec      the same with one caller calling again and again and   *)
(*                  a server that sends one reply per request;             *)
(*   HttpSpec       the long-polling transport's request;                  *)
(*   MachineSpec    the connection state machine fed every event sequence. *)
(*                                                                         *)
(* The session's protocol client and the subscriptions map are not part of *)
(* the sources at hand: the former is modelled by BayeuxClientT, which     *)
(* implements the same operations, the latter from its documented          *)
(* behaviour.  Delivery queues of the callers always accept a batch.       *)
(***************************************************************************)
EXTENDS Naturals, Sequences, FiniteSets

(***************************************************************************)
(* Bounds of the model.                                                    *)
(***************************************************************************)
MaxHandshakeReply == 2
MaxReply == 1
MaxConnectReply == 2
MaxSubs == 2
MaxUnsubs == 2
MaxConnects == 1
MaxBatch == 2
MaxRequests == 2
MaxFrames == 3
MaxDials == 2
MaxEvents == 4
MaxHttpCalls == 2
MaxSeqCalls == 5

(***************************************************************************)
(* Program constants.                                                      *)
(***************************************************************************)
SubscribeQueueCap == 10
UnsubscribeQueueCap == 10
ConnectRequestCap == 1
ConnectMessageCap == 5
MsgBufferCap == 100

MetaHandshake == "/meta/handshake"
MetaConnect == "/meta/connect"
MetaSubscribe == "/meta/subscribe"
MetaUnsubscribe == "/meta/unsubscribe"
MetaDisconnect == "/meta/disconnect"
emptyChannel == ""

UserChannels == {"/a", "/b"}
ClientIDs == {"", "c1"}

(***************************************************************************)
(* Messages, transport replies and errors.                                 *)
(***************************************************************************)
Msg(ch, ok, cid, adv) ==
    [channel |-> ch, successful |-> ok, clientID |-> cid, advice |-> adv]

RECURSIVE SeqsOfLen(_, _)
SeqsOfLen(S, n) ==
    IF n = 0 THEN {<<>>}
    ELSE {Append(s, x) : s \in SeqsOfLen(S, n - 1), x \in S}

SeqsUpTo(S, n) == UNION {SeqsOfLen(S, k) : k \in 0..n}

\* What transport.request hands back: an error, or the reply batch.
TransportFailure == [ok |-> FALSE, ms |-> <<>>]
TransportReplies(msgs, n) ==
    {TransportFailure} \cup {[ok |-> TRUE, ms |-> s] : s \in SeqsUpTo(msgs, n)}

HandshakeMsgs ==
    {Msg(ch, ok, cid, "none") :
        ch \in {MetaHandshake, "/a"}, ok \in BOOLEAN, cid \in ClientIDs}
MetaMsgs(meta) ==
    {Msg(ch, ok, "", "none") : ch \in {meta, "/a"}, ok \in BOOLEAN}
ConnectMsgs ==
    {Msg(MetaConnect, TRUE, "", adv) : adv \in {"retry", "handshake"}}
    \cup {Msg(MetaConnect, FALSE, "", "none")}
    \cup {Msg(ch, TRUE, "", "none") : ch \in UserChannels}

Err(type, cause) == [type |-> type, cause |-> cause]
NoErr == Err("nil", "nil")

\* The record of one protocol-client call: its error, whether a request
\* reached the transport, and the transport's answer.
Ret(op, err, sent, resp) == [op |-> op, err |-> err, sent |-> sent, resp |-> resp]
NoCall == Ret("none", NoErr, FALSE, TransportFailure)
\* The session loop's record keeps the reply of Connect only.
Unkept == TransportFailure

(***************************************************************************)
(* Connection state machine.                                               *)
(***************************************************************************)
\* A machine that takes handshakeSent while a handshake is under way.
ProcessEventRehandshake(state, event) ==
    CASE event = "handshakeSent" ->
            IF state # "DISCONNECTED"
            THEN [ok |-> TRUE, state |-> "CONNECTING"]
            ELSE [ok |-> FALSE, state |-> state]
      [] event = "successfullyConnected" ->
            IF state = "CONNECTING"
            THEN [ok |-> TRUE, state |-> "CONNECTED"]
            ELSE [ok |-> FALSE, state |-> state]
      [] event = "disconnectSent" ->
            IF state # "DISCONNECTED"
            THEN [ok |-> TRUE, state |-> "DISCONNECTED"]
            ELSE [ok |-> FALSE, state |-> state]

ProcessEvent(state, event) ==
    CASE event = "handshakeSent" ->
            IF state \in {"UNCONNECTED", "CONNECTED"}
            THEN [ok |-> TRUE, state |-> "CONNECTING"]
            ELSE [ok |-> FALSE, state |-> state]
      [] event = "successfullyConnected" ->
            IF state = "CONNECTING"
            THEN [ok |-> TRUE, state |-> "CONNECTED"]
            ELSE [ok |-> FALSE, state |-> state]
      [] event = "disconnectSent" ->
            IF state # "DISCONNECTED"
            THEN [ok |-> TRUE, state |-> "DISCONNECTED"]
            ELSE [ok |-> FALSE, state |-> state]

IsConnected(state) == state = "CONNECTED"

(***************************************************************************)
(* Protocol client (BayeuxClientT).  Each call is split where the code     *)
(* blocks in transport.request: the part before the request, and the       *)
(* classification of the answer.                                           *)
(***************************************************************************)

\* The guard shared by Connect, Subscribe, Unsubscribe and Disconnect.
ReadyNoStateCheck(state, cid) == cid # ""
Ready(state, cid) == IsConnected(state) /\ cid # ""

\* Handshake, after the request returned: error, and the state it leaves.
HandshakeResultAlwaysStores(state, cid, resp) ==
    LET ms == resp.ms
        found == {i \in 1..Len(ms) : ms[i].channel = MetaHandshake}
    IN  IF ~resp.ok THEN [err |-> Err("HandshakeFailed", "transport"),
                          state |-> state, cid |-> cid]
        ELSE IF Len(ms) > 1 THEN [err |-> Err("HandshakeFailed", "TooManyMessages"),
                                  state |-> state, cid |-> cid]
        ELSE IF found = {} THEN [err |-> Err("HandshakeFailed", "BadChannel"),
                                 state |-> state, cid |-> cid]
        ELSE [err |-> IF ms[1].successful THEN NoErr
                      ELSE Err("HandshakeError", "server"),
              state |-> ProcessEvent(state, "successfullyConnected").state,
              cid |-> ms[1].clientID]

\* A Handshake that takes the transition back when the request fails.
HandshakeResultRollsBack(state, cid, resp) ==
    LET ms == resp.ms
        found == {i \in 1..Len(ms) : ms[i].channel = MetaHandshake}
        message == IF found = {} THEN Msg(emptyChannel, FALSE, "", "none")
                   ELSE ms[CHOOSE i \in found : \A j \in found : j <= i]
    IN  IF ~resp.ok THEN [err |-> Err("HandshakeFailed", "transport"),
                          state |-> "UNCONNECTED", cid |-> cid]
        ELSE IF Len(ms) > 1 THEN [err |-> Err("HandshakeFailed", "TooManyMessages"),
                                  state |-> state, cid |-> cid]
        ELSE IF message.channel = emptyChannel
             THEN [err |-> Err("HandshakeFailed", "BadChannel"),
                   state |-> state, cid |-> cid]
        ELSE IF ~message.successful
             THEN [err |-> Err("HandshakeError", "server"),
                   state |-> state, cid |-> cid]
        ELSE [err |-> NoErr,
              state |-> ProcessEvent(state, "successfullyConnected").state,
              cid |-> message.clientID]

HandshakeResult(state, cid, resp) ==
    LET ms == resp.ms
        found == {i \in 1..Len(ms) : ms[i].channel = MetaHandshake}
        \* the last handshake-channel message of the reply, as the loop keeps it
        message == IF found = {} THEN Msg(emptyChannel, FALSE, "", "none")
                   ELSE ms[CHOOSE i \in found : \A j \in found : j <= i]
    IN  IF ~resp.ok THEN [err |-> Err("HandshakeFailed", "transport"),
                          state |-> state, cid |-> cid]
        ELSE IF Len(ms) > 1 THEN [err |-> Err("HandshakeFailed", "TooManyMessages"),
                                  state |-> state, cid |-> cid]
        ELSE IF message.channel = emptyChannel
             THEN [err |-> Err("HandshakeFailed", "BadChannel"),
                   state |-> state, cid |-> cid]
        ELSE IF ~message.successful
             THEN [err |-> Err("HandshakeError", "server"),
                   state |-> state, cid |-> cid]
        ELSE [err |-> NoErr,
              state |-> ProcessEvent(state, "successfullyConnected").state,
              cid |-> message.clientID]

\* A reply carries a failure on the call's meta channel.
Unsuccessful(ms, meta) ==
    \E i \in 1..Len(ms) : ms[i].channel = meta /\ ~ms[i].successful

ConnectResult(resp) ==
    IF ~resp.ok THEN Err("ConnectionFailed", "transport")
    ELSE IF Unsuccessful(resp.ms, MetaConnect)
         THEN Err("ConnectionFailed", "FailedToConnect")
    ELSE NoErr

SubscribeResult(resp) ==
    IF ~resp.ok THEN Err("SubscriptionFailed", "transport")
    ELSE IF Unsuccessful(resp.ms, MetaSubscribe)
         THEN Err("SubscriptionFailed", "server")
    ELSE NoErr

UnsubscribeResult(resp) ==
    IF ~resp.ok THEN Err("UnsubscribeFailed", "transport")
    ELSE IF Unsuccessful(resp.ms, MetaUnsubscribe)
         THEN Err("UnsubscribeFailed", "server")
    ELSE NoErr

DisconnectResult(resp) ==
    IF ~resp.ok THEN Err("DisconnectFailed", "transport")
    ELSE IF Unsuccessful(resp.ms, MetaDisconnect)
         THEN Err("DisconnectFailed", "nil")
    ELSE NoErr

\* The error each guarded call returns when the client is not connected.
NotConnectedErr(op) ==
    CASE op = "Connect" -> Err("ClientNotConnected", "ClientNotConnected")
      [] op = "Subscribe" -> Err("SubscriptionFailed", "ClientNotConnected")
      [] op = "Unsubscribe" -> Err("UnsubscribeFailed", "ClientNotConnected")
      [] op = "Disconnect" -> Err("DisconnectFailed", "ClientNotConnected")

GuardedOps == {"Connect", "Subscribe", "Unsubscribe", "Disconnect"}

OpMeta(op) ==
    CASE op = "Connect" -> MetaConnect
      [] op = "Subscribe" -> MetaSubscribe
      [] op = "Unsubscribe" -> MetaUnsubscribe
      [] op = "Disconnect" -> MetaDisconnect

OpResult(op, resp) ==
    CASE op = "Connect" -> ConnectResult(resp)
      [] op = "Subscribe" -> SubscribeResult(resp)
      [] op = "Unsubscribe" -> UnsubscribeResult(resp)
      [] op = "Disconnect" -> DisconnectResult(resp)

(***************************************************************************)
(* State.                                                                  *)
(***************************************************************************)
VARIABLES
    stateMachine,               \* BayeuxClientT.stateMachine
    clientID,                   \* BayeuxClientT.state (the client-id)
    callRet,                    \* ghost: the protocol call that returned in the last step
    pc,                         \* where the start/poll goroutine stands
    subscribeRequestChannel,    \* Client.subscribeRequestChannel (buffered)
    unsubscribeRequestChannel,  \* Client.unsubscribeRequestChannel (buffered)
    connectRequestChannel,      \* Client.connectRequestChannel: triggers queued
    connectMessageChannel,      \* Client.connectMessageChannel (buffered)
    closed,                     \* Client.Disconnect has closed the request channels
    ctxDone,                    \* the context passed to Start is cancelled
    subscriptions,              \* Client.subscriptions
    ignoreError,                \* Client.ignoreError: the error types it accepts
    errors,                     \* what was sent on the error stream, in order
    dpc,                        \* where the goroutine calling Client.Disconnect stands
    timers,                     \* delayed advice tasks not yet fired
    subReqs,                    \* poll: the batch of subscribe requests being handled
    channels,                   \* poll: the channel list of the call being made
    delivered,                  \* ghost: batches the last connect handler delivered
    pickup,                     \* ghost: the subscribe queue when poll picked a request up
    covered,                    \* ghost: ids of the requests carried by a Subscribe call
    confirmed,                  \* ghost: request ids of Subscribe calls that succeeded
    nSub, nUnsub, nConn,        \* ghost: Subscribe / Unsubscribe / Connect calls so far
    startDisconnects,           \* ghost: Disconnect calls made by start after poll
    crashed,                    \* a goroutine other than the loop panicked
    workload,                   \* how many Subscribe and Unsubscribe calls the callers make
    exts,                       \* BayeuxClientT.exts
    hookLog,                    \* ghost: hook calls and the send of the last request
    extRet,                     \* ghost: what the last UseExtension / request returned
    ready,                      \* BayeuxTransportWebsocket.ready
    openRequest,                \* BayeuxTransportWebsocket.openRequest
    msgBuffer,                  \* BayeuxTransportWebsocket.msgBuffer
    conn,                       \* BayeuxTransportWebsocket.conn: 0 is nil, n the n-th connection
    wsReq,                      \* where each websocket request call stands
    wsLoop,                     \* where listen / readLoop stands, and its locals
    errChan,                    \* what listen / readLoop sent on the side error channel
    wsCtx,                      \* the context passed to listen is cancelled
    wsStats,                    \* ghost: frames written, increments, frames read and placed
    httpRet,                    \* ghost: the long-polling requests made and what each returned
    smEvents,                   \* ghost: the events fired at the state machine, in order
    smRet                       \* ghost: whether the last event was accepted

clientVars == <<stateMachine, clientID>>
chanVars == <<subscribeRequestChannel, unsubscribeRequestChannel,
              connectRequestChannel, connectMessageChannel>>
loopVars == <<pc, subReqs, channels, delivered, pickup, covered, confirmed,
              startDisconnects, timers, nConn>>
extVars == <<exts, hookLog, extRet>>
wsVars == <<ready, openRequest, msgBuffer, conn, wsReq, wsLoop, errChan, wsCtx, wsStats>>
httpVars == <<httpRet>>
machineVars == <<smEvents, smRet>>
\* The parts the session loop and its callers never touch.
auxVars == <<extVars, wsVars, httpVars, machineVars>>
sessionVars == <<chanVars, loopVars, closed, ctxDone, subscriptions, ignoreError,
                 errors, dpc, nSub, nUnsub, crashed, workload, auxVars>>
vars == <<clientVars, callRet, sessionVars>>

\* The loop's own queue, connectMessageChannel, among the delivery queues.
OwnQueue == 0
\* The reserved entry start registers for the connect replies.
Request(ch, q, n) == [subscription |-> ch, msgChan |-> q, n |-> n]
ZeroRequest == Request(emptyChannel, 0, 0)
ConnectEntry == [ch |-> MetaConnect,
                 req |-> Request(MetaConnect, OwnQueue, 0)]

Workload(subs, unsubs) == [subs |-> subs, unsubs |-> unsubs]

\* What no extension call and no long-polling request has returned yet.
NoExtCall == [op |-> "none", err |-> "nil", ext |-> "none", out |-> 0, in |-> 0]

\* NewBayeuxClientT, NewBayeuxTransportWebsocket, NewBayeuxTransportHttp and
\* NewConnectionStateMachine: no extension, no connection, nothing outstanding.
NewTransports ==
    /\ exts = <<>>
    /\ hookLog = <<>>
    /\ extRet = NoExtCall
    /\ ready = FALSE
    /\ openRequest = 0
    /\ msgBuffer = <<>>
    /\ conn = 0
    /\ wsReq = [r \in 1..MaxRequests |-> [pc |-> "idle", conn |-> 0]]
    /\ wsLoop = [pc |-> "idle", frame |-> "none", openRequest |-> 0]
    /\ errChan = <<>>
    /\ wsCtx = FALSE
    /\ wsStats = [writes |-> 0, adds |-> 0, frames |-> 0, placed |-> 0, dials |-> 0]
    /\ httpRet = <<>>
    /\ smEvents = <<>>
    /\ smRet = TRUE

\* NewClient: every queue empty, nothing registered, nothing running yet.
NewClient(ignore, work) ==
    /\ workload = work
    /\ stateMachine = "UNCONNECTED"
    /\ clientID = ""
    /\ callRet = NoCall
    /\ pc = "start"
    /\ subscribeRequestChannel = <<>>
    /\ unsubscribeRequestChannel = <<>>
    /\ connectRequestChannel = 0
    /\ connectMessageChannel = <<>>
    /\ closed = FALSE
    /\ ctxDone = FALSE
    /\ subscriptions = {}
    /\ ignoreError = ignore
    /\ errors = <<>>
    /\ dpc = "idle"
    /\ timers = 0
    /\ subReqs = <<>>
    /\ channels = <<>>
    /\ delivered = <<>>
    /\ pickup = <<>>
    /\ covered = <<>>
    /\ confirmed = {}
    /\ nSub = 0
    /\ nUnsub = 0
    /\ nConn = 0
    /\ startDisconnects = 0
    /\ crashed = FALSE
    /\ NewTransports

(***************************************************************************)
(* ClientSpec: the protocol client called directly, one call at a time.    *)
(***************************************************************************)
ClientInit == NewClient({}, Workload(0, 0))

BcHandshake ==
    LET ev == ProcessEvent(stateMachine, "handshakeSent")
    IN  IF ~ev.ok
        THEN /\ callRet' = Ret("Handshake", Err("HandshakeFailed", "InvalidTransition"),
                               FALSE, TransportFailure)
             /\ UNCHANGED <<clientVars, sessionVars>>
        ELSE \E resp \in TransportReplies(HandshakeMsgs, MaxHandshakeReply) :
                LET r == HandshakeResult(ev.state, clientID, resp)
                IN  /\ stateMachine' = r.state
                    /\ clientID' = r.cid
                    /\ callRet' = Ret("Handshake", r.err, TRUE, resp)
                    /\ UNCHANGED sessionVars

BcCall(op) ==
    IF ~Ready(stateMachine, clientID)
    THEN /\ callRet' = Ret(op, NotConnectedErr(op), FALSE, TransportFailure)
         /\ UNCHANGED <<clientVars, sessionVars>>
    ELSE \E resp \in TransportReplies(MetaMsgs(OpMeta(op)), MaxReply) :
            /\ callRet' = Ret(op, OpResult(op, resp), TRUE, resp)
            /\ UNCHANGED <<clientVars, sessionVars>>

BcConnect == BcCall("Connect")
BcSubscribe == BcCall("Subscribe")
BcUnsubscribe == BcCall("Unsubscribe")
BcDisconnect == BcCall("Disconnect")

ClientNext ==
    \/ BcHandshake
    \/ BcConnect
    \/ BcSubscribe
    \/ BcUnsubscribe
    \/ BcDisconnect

ClientSpec == ClientInit /\ [][ClientNext]_vars

(***************************************************************************)
(* Session loop: the subscriptions map and the pure parts of poll.         *)
(***************************************************************************)
Entry(ch, req) == [ch |-> ch, req |-> req]
Registered(subs, ch) == \E e \in subs : e.ch = ch
Get(subs, ch) == CHOOSE e \in subs : e.ch = ch

\* subscriptionsMap.Add: a channel already present is an error, not an overwrite.
Add(subs, ch, req) ==
    IF Registered(subs, ch)
    THEN [err |-> Err("AlreadySubscribed", ch), subs |-> subs]
    ELSE [err |-> NoErr, subs |-> subs \cup {Entry(ch, req)}]

Remove(subs, ch) == {e \in subs : e.ch # ch}

\* IgnoreErrorFunc, as the set of error types it answers true for.
IgnorePolicies ==
    { {},
      {"AlreadySubscribed", "SubscriptionFailed"},
      {"UnsubscribeFailed", "ConnectionFailed", "ClientNotConnected",
       "HandshakeFailed", "HandshakeError", "UnknownSubscription",
       "ContextCanceled"} }
Ignored(ignore, err) == err.type \in ignore

SeqToSet(s) == {s[i] : i \in 1..Len(s)}
Ids(reqs) == {reqs[i].n : i \in 1..Len(reqs)}
ChannelsOf(reqs) == [i \in 1..Len(reqs) |-> reqs[i].subscription]

\* The batch poll passes to Subscribe: the drained requests, then the request
\* the select received.  reqs holds the received request first.
SubscribeBatchDropsReceived(reqs) == Tail(reqs)
SubscribeBatch(reqs) == Tail(reqs) \o <<Head(reqs)>>

\* The registration loop after a successful Subscribe: every request is
\* added in turn; an ignored error is reported and the loop goes on to the
\* next request, any other error ends poll.
RECURSIVE PollAddLoopStopsAtError(_, _, _, _, _)
PollAddLoopStopsAtError(reqs, i, subs, errs, ignore) ==
    IF i > Len(reqs) THEN [subs |-> subs, errs |-> errs, fatal |-> FALSE]
    ELSE LET a == Add(subs, reqs[i].subscription, reqs[i])
         IN  IF a.err = NoErr
             THEN PollAddLoopStopsAtError(reqs, i + 1, a.subs, errs, ignore)
             ELSE IF Ignored(ignore, a.err)
                  THEN [subs |-> a.subs, errs |-> Append(errs, a.err), fatal |-> FALSE]
                  ELSE [subs |-> a.subs, errs |-> Append(errs, a.err), fatal |-> TRUE]

RECURSIVE PollAddLoop(_, _, _, _, _)
PollAddLoop(reqs, i, subs, errs, ignore) ==
    IF i > Len(reqs) THEN [subs |-> subs, errs |-> errs, fatal |-> FALSE]
    ELSE LET a == Add(subs, reqs[i].subscription, reqs[i])
         IN  IF a.err = NoErr
             THEN PollAddLoop(reqs, i + 1, a.subs, errs, ignore)
             ELSE IF Ignored(ignore, a.err)
                  THEN PollAddLoop(reqs, i + 1, a.subs, Append(errs, a.err), ignore)
                  ELSE [subs |-> a.subs, errs |-> Append(errs, a.err), fatal |-> TRUE]

\* What Subscribe's return does to the map: nothing on an error, the
\* registration loop otherwise.
SubscribeRegistersAnyway(err, reqs, subs, ignore) ==
    PollAddLoop(reqs, 1, subs, <<>>, ignore)
SubscribeRegisters(err, reqs, subs, ignore) ==
    IF err # NoErr THEN [subs |-> subs, errs |-> <<>>, fatal |-> FALSE]
    ELSE PollAddLoop(reqs, 1, subs, <<>>, ignore)

\* The removal loop after a successful Unsubscribe.
PollRemoveLoopFirstOnly(chans, i, subs) ==
    IF i > Len(chans) THEN subs ELSE Remove(subs, chans[i])
RECURSIVE PollRemoveLoop(_, _, _)
PollRemoveLoop(chans, i, subs) ==
    IF i > Len(chans) THEN subs
    ELSE PollRemoveLoop(chans, i + 1, Remove(subs, chans[i]))

\* One delivery: the queue it went to and the batch.
Delivery(q, batch) == [q |-> q, batch |-> batch]

\* The delivery loop over a connect reply.  A batch is sent when the channel
\* changes; status tells how the loop ended: "ok", "unregistered" (Get
\* failed), "blocked" (the connect-reply queue is full and only the loop
\* itself reads it) or "panic" (the connect-reply queue is closed).
RECURSIVE PollDeliver(_, _, _, _, _, _, _, _)
PollDeliver(ms, i, lastChannel, batch, log, q, subs, isClosed) ==
    IF i > Len(ms) THEN [log |-> log, q |-> q, status |-> "ok"]
    ELSE LET m == ms[i]
         IN  IF lastChannel = emptyChannel
             THEN PollDeliver(ms, i + 1, m.channel, Append(batch, m), log, q, subs, isClosed)
             ELSE IF lastChannel = m.channel
             THEN PollDeliver(ms, i + 1, lastChannel, Append(batch, m), log, q, subs, isClosed)
             ELSE IF ~Registered(subs, lastChannel)
             THEN [log |-> log, q |-> q, status |-> "unregistered"]
             ELSE LET msgChan == Get(subs, lastChannel).req.msgChan
                      own == msgChan = OwnQueue
                  IN  IF own /\ isClosed
                      THEN [log |-> log, q |-> q, status |-> "panic"]
                      ELSE IF own /\ Len(q) >= ConnectMessageCap
                      THEN [log |-> log, q |-> q, status |-> "blocked"]
                      ELSE PollDeliver(ms, i + 1, m.channel, <<m>>,
                                       Append(log, Delivery(msgChan, batch)),
                                       IF own THEN Append(q, batch) ELSE q,
                                       subs, isClosed)

\* Advice.ShouldHandshake
ShouldHandshake(m) == m.advice = "handshake"

\* c.shutdown is created by NewClient and never sent to nor closed.
ShutdownReady == FALSE

(***************************************************************************)
(* Session loop: the goroutine running start and poll.                     *)
(***************************************************************************)
envVars == <<closed, ctxDone, ignoreError, dpc, nSub, nUnsub, crashed, workload, auxVars>>
ghostVars == <<pickup, covered, confirmed, startDisconnects>>

\* A panic in any goroutine ends the process.
Alive == pc # "panic" /\ ~crashed

\* The loop goroutine has not returned and is not stuck in a drain.  Once it
\* has, nothing reads the queues any more and the callers are followed no
\* further.
SessionLive == Alive /\ pc \notin {"exitErr", "exitClean", "spin"}

CallPcs == {"handshakeCall", "rehandshakeCall", "subCall", "unsubCall", "connectCall"}

\* enqueueConnectRequest on an open trigger queue: add unless full.
enqueueConnectRequest(c) == IF c < ConnectRequestCap THEN c + 1 ELSE c

\* No protocol call returned in this step.
NoReturn == callRet' = NoCall /\ delivered' = <<>>

\* poll returns err; start sends it on the error stream and returns.
Fatal(err) == errors' = Append(errors, err) /\ pc' = "exitErr"

\* A subscribe or unsubscribe error: reported and the loop goes on when the
\* predicate accepts it, and ends poll otherwise.
RecoverableUnreported(err) ==
    /\ errors' = IF Ignored(ignoreError, err) THEN errors ELSE Append(errors, err)
    /\ pc' = IF Ignored(ignoreError, err) THEN "select" ELSE "exitErr"
Recoverable(err) ==
    /\ errors' = Append(errors, err)
    /\ pc' = IF Ignored(ignoreError, err) THEN "select" ELSE "exitErr"

\* start, up to the handshake request.
StartHandshake ==
    /\ pc = "start" /\ Alive
    /\ LET ev == ProcessEvent(stateMachine, "handshakeSent")
       IN  IF ev.ok
           THEN /\ stateMachine' = ev.state
                /\ pc' = "handshakeCall"
                /\ callRet' = NoCall
                /\ UNCHANGED errors
           ELSE /\ callRet' = Ret("Handshake", Err("HandshakeFailed", "InvalidTransition"),
                                  FALSE, TransportFailure)
                /\ Fatal(callRet'.err)
                /\ UNCHANGED stateMachine
    /\ delivered' = <<>>
    /\ UNCHANGED <<clientID, chanVars, subscriptions, timers, subReqs, channels,
                   nConn, ghostVars, envVars>>

\* start, from the handshake reply to the first iteration of poll.
StartHandshakeReturn ==
    /\ pc = "handshakeCall" /\ Alive
    /\ \E resp \in TransportReplies(HandshakeMsgs, MaxHandshakeReply) :
          LET r == HandshakeResult(stateMachine, clientID, resp)
          IN  /\ stateMachine' = r.state
              /\ clientID' = r.cid
              /\ callRet' = Ret("Handshake", r.err, TRUE, Unkept)
              /\ IF r.err # NoErr
                 THEN Fatal(r.err) /\ UNCHANGED subscriptions
                 ELSE /\ subscriptions' =
                            Add(subscriptions, MetaConnect, ConnectEntry.req).subs
                      /\ pc' = "select"
                      /\ UNCHANGED errors
    /\ delivered' = <<>>
    /\ UNCHANGED <<chanVars, timers, subReqs, channels, nConn, ghostVars, envVars>>

\* start after poll returned nil: one Disconnect call, its error reported.
StartDisconnect ==
    \E resp \in TransportReplies(MetaMsgs(MetaDisconnect), MaxReply) :
        LET err == IF Ready(stateMachine, clientID)
                   THEN DisconnectResult(resp)
                   ELSE NotConnectedErr("Disconnect")
        IN  /\ startDisconnects' = startDisconnects + 1
            /\ callRet' = Ret("Disconnect", err, Ready(stateMachine, clientID), Unkept)
            /\ IF err # NoErr THEN Fatal(err)
               ELSE pc' = "exitClean" /\ UNCHANGED errors

\* select: the shutdown and ctx.Done cases, and what start does after poll.
\* ctx.Done is ready when the caller has cancelled the context passed to
\* Start by now; a cancellation has no other effect on the loop, so it is
\* taken into the step that sees it.
PollExit ==
    /\ pc = "select" /\ Alive
    /\ \E c \in (IF ShutdownReady THEN {"shutdown"} ELSE {}) \cup {"ctx"} :
          IF c = "ctx"
          THEN /\ ctxDone' = TRUE
               /\ IF ctxDone'
                  THEN /\ Fatal(Err("ContextCanceled", "ContextCanceled"))
                       /\ callRet' = NoCall
                       /\ UNCHANGED startDisconnects
                  ELSE StartDisconnect
          ELSE UNCHANGED ctxDone /\ StartDisconnect
    /\ delivered' = <<>>
    /\ subReqs' = <<>> /\ channels' = <<>>
    /\ UNCHANGED <<clientVars, chanVars, subscriptions, timers, nConn, pickup, covered, confirmed, closed, ignoreError, dpc,
                   nSub, nUnsub, crashed, workload, auxVars>>

\* select: a subscribe request is received (the zero value once the queue
\* is closed and empty); the drain starts.  subReqs holds the received
\* request first, the drained ones after it.
PollSubscribeRequest ==
    /\ pc = "select" /\ Alive
    /\ Len(subscribeRequestChannel) > 0 \/ closed
    /\ IF Len(subscribeRequestChannel) > 0
       THEN /\ subReqs' = <<Head(subscribeRequestChannel)>>
            /\ subscribeRequestChannel' = Tail(subscribeRequestChannel)
       ELSE /\ subReqs' = <<ZeroRequest>>
            /\ UNCHANGED subscribeRequestChannel
    /\ pickup' = subscribeRequestChannel
    /\ pc' = "subDrain"
    /\ NoReturn
    /\ channels' = <<>>
    /\ UNCHANGED <<clientVars, unsubscribeRequestChannel, connectRequestChannel,
                   connectMessageChannel, subscriptions, errors, timers, nConn, covered, confirmed, startDisconnects, envVars>>

\* getSubscriptionRequests: one more request is taken from the queue.
DrainSubscription ==
    /\ pc = "subDrain" /\ Alive
    /\ Len(subscribeRequestChannel) > 0
    /\ subReqs' = Append(subReqs, Head(subscribeRequestChannel))
    /\ subscribeRequestChannel' = Tail(subscribeRequestChannel)
    /\ NoReturn
    /\ UNCHANGED <<clientVars, pc, unsubscribeRequestChannel, connectRequestChannel,
                   connectMessageChannel, subscriptions, errors, timers, channels,
                   nConn, ghostVars, envVars>>

\* A drain of a closed, empty queue receives zero values for ever: its
\* default case is never taken.
DrainClosed ==
    /\ pc \in {"subDrain", "unsubDrain"} /\ Alive
    /\ closed
    /\ IF pc = "subDrain" THEN subscribeRequestChannel = <<>>
                          ELSE unsubscribeRequestChannel = <<>>
    /\ pc' = "spin"
    /\ NoReturn
    /\ UNCHANGED <<clientVars, chanVars, subscriptions, errors, timers, subReqs,
                   channels, nConn, ghostVars, envVars>>

\* The drain finds the queue empty; the received request is appended last
\* and Subscribe is called with the channels of the batch.
SubscribeSend ==
    /\ pc = "subDrain" /\ Alive
    /\ subscribeRequestChannel = <<>> /\ ~closed
    /\ LET batch == SubscribeBatch(subReqs)
       IN  /\ covered' = covered \o [i \in 1..Len(batch) |-> batch[i].n]
           /\ IF Ready(stateMachine, clientID)
              THEN /\ subReqs' = batch
                   /\ channels' = ChannelsOf(batch)
                   /\ pc' = "subCall"
                   /\ callRet' = NoCall
                   /\ UNCHANGED errors
              ELSE /\ subReqs' = batch
                   /\ channels' = ChannelsOf(batch)
                   /\ callRet' = Ret("Subscribe", NotConnectedErr("Subscribe"),
                                     FALSE, TransportFailure)
                   /\ Recoverable(callRet'.err)
    /\ delivered' = <<>>
    /\ UNCHANGED <<clientVars, chanVars, subscriptions, timers, nConn, pickup, confirmed,
                   startDisconnects, envVars>>

\* Subscribe returns: an error is reported or ends poll; on success every
\* request of the batch is registered and a connect trigger is enqueued.
SubscribeReturn ==
    /\ pc = "subCall" /\ Alive
    /\ \E resp \in TransportReplies(MetaMsgs(MetaSubscribe), MaxReply) :
          LET err == SubscribeResult(resp)
              r == SubscribeRegisters(err, subReqs, subscriptions, ignoreError)
          IN  /\ callRet' = Ret("Subscribe", err, TRUE, Unkept)
              /\ subscriptions' = r.subs
              /\ IF err # NoErr
                 THEN /\ Recoverable(err)
                      /\ UNCHANGED <<confirmed, connectRequestChannel>>
                 ELSE /\ confirmed' = confirmed \cup Ids(subReqs)
                      /\ errors' = errors \o r.errs
                      /\ IF r.fatal
                         THEN pc' = "exitErr" /\ UNCHANGED connectRequestChannel
                         ELSE IF closed
                         THEN pc' = "panic" /\ UNCHANGED connectRequestChannel
                         ELSE /\ pc' = "select"
                              /\ connectRequestChannel' =
                                    enqueueConnectRequest(connectRequestChannel)
    /\ pickup' = <<>>
    /\ delivered' = <<>>
    /\ UNCHANGED <<clientVars, subReqs, channels, subscribeRequestChannel, unsubscribeRequestChannel,
                   connectMessageChannel, timers, nConn, covered,
                   startDisconnects, envVars>>

\* select: an unsubscribe request is received; the drain starts.  channels
\* holds the received channel first, the drained ones after it.
PollUnsubscribeRequest ==
    /\ pc = "select" /\ Alive
    /\ Len(unsubscribeRequestChannel) > 0 \/ closed
    /\ IF Len(unsubscribeRequestChannel) > 0
       THEN /\ channels' = <<Head(unsubscribeRequestChannel)>>
            /\ unsubscribeRequestChannel' = Tail(unsubscribeRequestChannel)
       ELSE /\ channels' = <<emptyChannel>>
            /\ UNCHANGED unsubscribeRequestChannel
    /\ pc' = "unsubDrain"
    /\ NoReturn
    /\ subReqs' = <<>>
    /\ UNCHANGED <<clientVars, subscribeRequestChannel, connectRequestChannel,
                   connectMessageChannel, subscriptions, errors, timers, nConn, ghostVars, envVars>>

\* getUnsubscriptionRequests: one more channel is taken from the queue.
DrainUnsubscription ==
    /\ pc = "unsubDrain" /\ Alive
    /\ Len(unsubscribeRequestChannel) > 0
    /\ channels' = Append(channels, Head(unsubscribeRequestChannel))
    /\ unsubscribeRequestChannel' = Tail(unsubscribeRequestChannel)
    /\ NoReturn
    /\ UNCHANGED <<clientVars, pc, subscribeRequestChannel, connectRequestChannel,
                   connectMessageChannel, subscriptions, errors, timers, subReqs,
                   nConn, ghostVars, envVars>>

\* The drain finds the queue empty; Unsubscribe is called.
UnsubscribeSend ==
    /\ pc = "unsubDrain" /\ Alive
    /\ unsubscribeRequestChannel = <<>> /\ ~closed
    /\ IF Ready(stateMachine, clientID)
       THEN /\ channels' = Tail(channels) \o <<Head(channels)>>
            /\ pc' = "unsubCall"
            /\ callRet' = NoCall
            /\ UNCHANGED errors
       ELSE /\ channels' = <<>>
            /\ callRet' = Ret("Unsubscribe", NotConnectedErr("Unsubscribe"),
                              FALSE, TransportFailure)
            /\ Recoverable(callRet'.err)
    /\ delivered' = <<>>
    /\ UNCHANGED <<clientVars, chanVars, subscriptions, timers, subReqs, nConn,
                   ghostVars, envVars>>

\* Unsubscribe returns: on success every channel of the batch is removed.
UnsubscribeReturn ==
    /\ pc = "unsubCall" /\ Alive
    /\ \E resp \in TransportReplies(MetaMsgs(MetaUnsubscribe), MaxReply) :
          LET err == UnsubscribeResult(resp)
          IN  /\ callRet' = Ret("Unsubscribe", err, TRUE, Unkept)
              /\ IF err # NoErr
                 THEN Recoverable(err) /\ UNCHANGED subscriptions
                 ELSE /\ subscriptions' = PollRemoveLoop(channels, 1, subscriptions)
                      /\ pc' = "select"
                      /\ UNCHANGED errors
    /\ channels' = <<>>
    /\ delivered' = <<>>
    /\ UNCHANGED <<chanVars, clientVars, timers, subReqs, nConn, ghostVars, envVars>>

\* select: the re-handshake signal.  The queue is unbuffered and the loop is
\* its only sender, so the receive is ready only once the queue is closed.
PollHandshakeRequest ==
    /\ pc = "select" /\ Alive
    /\ closed
    /\ LET ev == ProcessEvent(stateMachine, "handshakeSent")
       IN  IF ev.ok
           THEN /\ stateMachine' = ev.state
                /\ pc' = "rehandshakeCall"
                /\ callRet' = NoCall
                /\ UNCHANGED errors
           ELSE /\ callRet' = Ret("Handshake", Err("HandshakeFailed", "InvalidTransition"),
                                  FALSE, TransportFailure)
                /\ Fatal(callRet'.err)
                /\ UNCHANGED stateMachine
    /\ delivered' = <<>>
    /\ subReqs' = <<>> /\ channels' = <<>>
    /\ UNCHANGED <<clientID, chanVars, subscriptions, timers, nConn, ghostVars, envVars>>

\* The re-handshake returns; on success a connect trigger is enqueued.
RehandshakeReturn ==
    /\ pc = "rehandshakeCall" /\ Alive
    /\ \E resp \in TransportReplies(HandshakeMsgs, MaxHandshakeReply) :
          LET r == HandshakeResult(stateMachine, clientID, resp)
          IN  /\ stateMachine' = r.state
              /\ clientID' = r.cid
              /\ callRet' = Ret("Handshake", r.err, TRUE, Unkept)
              /\ IF r.err # NoErr
                 THEN Fatal(r.err) /\ UNCHANGED connectRequestChannel
                 ELSE /\ UNCHANGED errors
                      /\ IF closed
                         THEN pc' = "panic" /\ UNCHANGED connectRequestChannel
                         ELSE /\ pc' = "select"
                              /\ connectRequestChannel' =
                                    enqueueConnectRequest(connectRequestChannel)
    /\ delivered' = <<>>
    /\ UNCHANGED <<subscribeRequestChannel, unsubscribeRequestChannel,
                   connectMessageChannel, subscriptions, timers, subReqs, channels,
                   nConn, ghostVars, envVars>>

\* select: a batch of connect replies is received (nil once the queue is
\* closed and empty).  Each message starts a delayed task; a message whose
\* advice says handshake first sends on the unbuffered re-handshake queue,
\* which nobody else reads: the loop blocks there, or panics if the queue
\* is closed.
PollConnectMessages ==
    /\ pc = "select" /\ Alive
    /\ Len(connectMessageChannel) > 0 \/ closed
    /\ LET ms == IF Len(connectMessageChannel) > 0
                 THEN Head(connectMessageChannel) ELSE <<>>
           hs == {i \in 1..Len(ms) : ShouldHandshake(ms[i])}
       IN  /\ connectMessageChannel' =
                 IF Len(connectMessageChannel) > 0
                 THEN Tail(connectMessageChannel) ELSE connectMessageChannel
           /\ IF hs = {}
              THEN timers' = timers + Len(ms) /\ pc' = "select"
              ELSE LET k == CHOOSE i \in hs : \A j \in hs : i <= j
                   IN  /\ timers' = timers + (k - 1)
                       /\ pc' = IF closed THEN "panic" ELSE "blockedHandshake"
    /\ NoReturn
    /\ subReqs' = <<>> /\ channels' = <<>>
    /\ UNCHANGED <<clientVars, subscribeRequestChannel, unsubscribeRequestChannel,
                   connectRequestChannel, subscriptions, errors, nConn, ghostVars, envVars>>

\* select: a connect trigger is received (the zero value once the queue is
\* closed and empty) and Connect is called.
PollConnectRequest ==
    /\ pc = "select" /\ Alive
    /\ connectRequestChannel > 0 \/ closed
    /\ nConn < MaxConnects
    /\ nConn' = nConn + 1
    /\ connectRequestChannel' =
          IF connectRequestChannel > 0 THEN connectRequestChannel - 1 ELSE 0
    /\ IF Ready(stateMachine, clientID)
       THEN /\ pc' = "connectCall"
            /\ callRet' = NoCall
            /\ UNCHANGED errors
       ELSE /\ callRet' = Ret("Connect", NotConnectedErr("Connect"), FALSE,
                              TransportFailure)
            /\ Fatal(callRet'.err)
    /\ delivered' = <<>>
    /\ subReqs' = <<>> /\ channels' = <<>>
    /\ UNCHANGED <<clientVars, subscribeRequestChannel, unsubscribeRequestChannel,
                   connectMessageChannel, subscriptions, timers, ghostVars, envVars>>

\* Connect returns; the reply is split into batches and delivered.
ConnectReturn ==
    /\ pc = "connectCall" /\ Alive
    /\ \E resp \in TransportReplies(ConnectMsgs, MaxConnectReply) :
          LET err == ConnectResult(resp)
              d == PollDeliver(resp.ms, 1, emptyChannel, <<>>, <<>>,
                               connectMessageChannel, subscriptions, closed)
          IN  /\ callRet' = Ret("Connect", err, TRUE, resp)
              /\ IF err # NoErr
                 THEN /\ Fatal(err)
                      /\ delivered' = <<>>
                      /\ UNCHANGED connectMessageChannel
                 ELSE /\ delivered' = d.log
                      /\ connectMessageChannel' = d.q
                      /\ IF d.status = "unregistered"
                         THEN Fatal(Err("UnknownSubscription", "UnknownSubscription"))
                         ELSE /\ UNCHANGED errors
                              /\ pc' = CASE d.status = "ok" -> "select"
                                         [] d.status = "blocked" -> "blockedDeliver"
                                         [] d.status = "panic" -> "panic"
    /\ UNCHANGED <<clientVars, subscribeRequestChannel, unsubscribeRequestChannel,
                   connectRequestChannel, subscriptions, timers, subReqs, channels,
                   nConn, ghostVars, envVars>>

\* select: no case is ready; a connect trigger is enqueued.
PollDefault ==
    /\ pc = "select" /\ Alive
    /\ ~ShutdownReady /\ ~closed
    /\ subscribeRequestChannel = <<>>
    /\ unsubscribeRequestChannel = <<>>
    /\ connectMessageChannel = <<>>
    /\ connectRequestChannel = 0
    /\ connectRequestChannel' = enqueueConnectRequest(connectRequestChannel)
    /\ NoReturn
    /\ subReqs' = <<>> /\ channels' = <<>>
    /\ UNCHANGED <<clientVars, pc, subscribeRequestChannel, unsubscribeRequestChannel,
                   connectMessageChannel, subscriptions, errors, timers, nConn, ghostVars, envVars>>

\* A send the loop is blocked in panics when Disconnect closes the queue.
BlockedSendPanics ==
    /\ pc \in {"blockedHandshake", "blockedDeliver"} /\ Alive
    /\ closed
    /\ pc' = "panic"
    /\ NoReturn
    /\ UNCHANGED <<clientVars, chanVars, subscriptions, errors, timers, subReqs,
                   channels, nConn, ghostVars, envVars>>

(***************************************************************************)
(* The other goroutines: callers of the Client and delayed advice tasks.   *)
(***************************************************************************)
callerFrame == <<clientVars, callRet, pc, subscriptions, ignoreError, errors, workload,
                 subReqs, channels, delivered, ghostVars, nConn, auxVars>>

\* Client.Subscribe: a blocking send on the subscribe queue.  Every caller
\* brings a delivery queue of its own, named by the number of the request.
Subscribe(ch) ==
    /\ SessionLive /\ nSub < workload.subs
    /\ IF closed
       THEN crashed' = TRUE /\ UNCHANGED <<subscribeRequestChannel, nSub>>
       ELSE /\ Len(subscribeRequestChannel) < SubscribeQueueCap
            /\ subscribeRequestChannel' =
                  Append(subscribeRequestChannel, Request(ch, nSub + 1, nSub + 1))
            /\ nSub' = nSub + 1
            /\ UNCHANGED crashed
    /\ UNCHANGED <<callerFrame, unsubscribeRequestChannel, connectRequestChannel,
                   connectMessageChannel, closed, ctxDone, dpc, timers, nUnsub>>

\* Client.Unsubscribe: a blocking send on the unsubscribe queue.
Unsubscribe(ch) ==
    /\ SessionLive /\ nUnsub < workload.unsubs
    /\ IF closed
       THEN crashed' = TRUE /\ UNCHANGED <<unsubscribeRequestChannel, nUnsub>>
       ELSE /\ Len(unsubscribeRequestChannel) < UnsubscribeQueueCap
            /\ unsubscribeRequestChannel' = Append(unsubscribeRequestChannel, ch)
            /\ nUnsub' = nUnsub + 1
            /\ UNCHANGED crashed
    /\ UNCHANGED <<callerFrame, subscribeRequestChannel, connectRequestChannel,
                   connectMessageChannel, closed, ctxDone, dpc, timers, nSub>>

\* Client.Disconnect, up to the request: the caller's goroutine calls the
\* protocol client itself.  Not connected, the call returns at once and the
\* queues are closed.
DisconnectCall ==
    /\ SessionLive /\ dpc = "idle"
    /\ IF Ready(stateMachine, clientID)
       THEN dpc' = "inflight" /\ UNCHANGED closed
       ELSE dpc' = "failed" /\ closed' = TRUE
    /\ UNCHANGED <<callerFrame, chanVars, ctxDone, timers, nSub, nUnsub, crashed>>

\* Client.Disconnect, from the reply on: the five queues are closed.  The
\* error goes back to the caller.
DisconnectReturn ==
    /\ SessionLive /\ dpc = "inflight"
    /\ dpc' = "done"
    /\ closed' = TRUE
    /\ UNCHANGED <<callerFrame, chanVars, ctxDone, timers, nSub, nUnsub, crashed>>

\* A delayed advice task fires and enqueues a connect trigger.
TimerFire ==
    /\ SessionLive /\ timers > 0
    /\ timers' = timers - 1
    /\ IF closed
       THEN crashed' = TRUE /\ UNCHANGED connectRequestChannel
       ELSE /\ connectRequestChannel' = enqueueConnectRequest(connectRequestChannel)
            /\ UNCHANGED crashed
    /\ UNCHANGED <<callerFrame, subscribeRequestChannel, unsubscribeRequestChannel,
                   connectMessageChannel, closed, ctxDone, dpc, nSub, nUnsub>>

Init == \E ignore \in IgnorePolicies : NewClient(ignore, Workload(MaxSubs, MaxUnsubs))

\* The loop goroutine, but for the handling of unsubscribe requests.
LoopNext ==
    \/ StartHandshake
    \/ StartHandshakeReturn
    \/ PollExit
    \/ PollSubscribeRequest
    \/ DrainSubscription
    \/ DrainClosed
    \/ SubscribeSend
    \/ SubscribeReturn
    \/ PollUnsubscribeRequest
    \/ PollHandshakeRequest
    \/ RehandshakeReturn
    \/ PollConnectMessages
    \/ PollConnectRequest
    \/ ConnectReturn
    \/ PollDefault
    \/ BlockedSendPanics

\* Unsubscribe requests and their handling.
UnsubscribeNext ==
    \/ \E ch \in UserChannels : Unsubscribe(ch)
    \/ DrainUnsubscription
    \/ UnsubscribeSend
    \/ UnsubscribeReturn

\* The other callers and the delayed tasks.
CallerNext ==
    \/ \E ch \in UserChannels : Subscribe(ch)
    \/ DisconnectCall
    \/ DisconnectReturn
    \/ TimerFire

Next == LoopNext \/ UnsubscribeNext \/ CallerNext

Spec == Init /\ [][Next]_vars

\* The session with callers that only subscribe, one request more of them.
SubscribeInit ==
    \E ignore \in IgnorePolicies : NewClient(ignore, Workload(MaxSubs + 1, 0))

SubscribeNext == LoopNext \/ CallerNext

SubscribeSpec == SubscribeInit /\ [][SubscribeNext]_vars

\* Everything of the protocol client and the session.
coreVars == <<clientVars, callRet, chanVars, loopVars, closed, ctxDone, subscriptions,
              ignoreError, errors, dpc, nSub, nUnsub, crashed, workload>>

(***************************************************************************)
(* ExtensionSpec: the extension list of the protocol client and the hooks  *)
(* its request method runs around the transport call.                      *)
(***************************************************************************)
Extensions == {"x1", "x2", "x3"}

\* UseExtension: the list after the call and the error returned.
UseExtensionNoCheck(list, ext) == [err |-> "nil", exts |-> Append(list, ext)]
UseExtensionResult(list, ext) ==
    IF \E i \in 1..Len(list) : list[i] = ext
    THEN [err |-> "AlreadyRegistered", exts |-> list]
    ELSE [err |-> "nil", exts |-> Append(list, ext)]

\* The hook calls of one direction over a batch of n messages: the outer
\* loop ranges over the extensions, the inner one over the messages.
Hook(ext, dir, m) == [ext |-> ext, dir |-> dir, m |-> m]
HookCalls(list, n, dir) ==
    [k \in 1..(Len(list) * n) |->
        Hook(list[((k - 1) \div n) + 1], dir, ((k - 1) % n) + 1)]
TransportCall == Hook("none", "request", 0)

\* BayeuxClientT.request: what runs, in order, for an outgoing batch of n
\* messages; k is the size of the reply, ok tells whether there is one.
RequestTrace(list, n, ok, k) ==
    HookCalls(list, n, "Outgoing") \o <<TransportCall>>
        \o (IF ok THEN HookCalls(list, k, "Incoming") ELSE <<>>)

UseExtension(ext) ==
    LET r == UseExtensionResult(exts, ext)
    IN  /\ exts' = r.exts
        /\ extRet' = [op |-> "UseExtension", err |-> r.err, ext |-> ext, out |-> 0, in |-> 0]
        /\ hookLog' = <<>>
        /\ UNCHANGED <<coreVars, wsVars, httpVars, machineVars>>

BcRequest ==
    \E n \in 0..MaxBatch, ok \in BOOLEAN, k \in 0..MaxBatch :
        /\ ok \/ k = 0
        /\ hookLog' = RequestTrace(exts, n, ok, k)
        /\ extRet' = [op |-> "request", err |-> IF ok THEN "nil" ELSE "transport",
                      ext |-> "none", out |-> n, in |-> k]
        /\ UNCHANGED <<exts, coreVars, wsVars, httpVars, machineVars>>

ExtensionNext ==
    \/ \E ext \in Extensions : UseExtension(ext)
    \/ BcRequest

ExtensionSpec == ClientInit /\ [][ExtensionNext]_vars

(***************************************************************************)
(* WsSpec: the websocket transport.  Request calls on one side, listen and *)
(* its read loop on the other; each action is one access to the shared     *)
(* fields (ready, openRequest, msgBuffer, the connection).  The owner reads *)
(* the side error channel at once, as the transport requires.              *)
(***************************************************************************)
Requests == 1..MaxRequests
FrameTypes == {"text", "binary"}

\* request, line 47: the call goes on only when the ready flag is set.
RequestReadyAlways(flag) == TRUE
RequestReady(flag) == flag

\* readLoop, lines 112-126: what becomes of a frame of the given type read
\* while the counter has the given value.
FrameOutcomeDropsUnrequested(type, counter) ==
    IF type # "text" THEN "unsupported"
    ELSE IF counter > 0 THEN "deliver" ELSE "dropped"
FrameOutcome(type, counter) ==
    IF type # "text" THEN "unsupported"
    ELSE IF counter > 0 THEN "deliver" ELSE "undelivered"

\* request, up to the ready check.  The calls are numbered in the order in
\* which they are made.
WsRequestStart(r) ==
    /\ wsReq[r].pc = "idle"
    /\ IF r = 1 THEN TRUE ELSE wsReq[r - 1].pc # "idle"
    /\ wsReq' = [wsReq EXCEPT ![r] =
                    [pc |-> IF RequestReady(ready) THEN "write" ELSE "notReady",
                     conn |-> conn]]
    /\ UNCHANGED <<ready, openRequest, msgBuffer, conn, wsLoop, errChan, wsCtx, wsStats>>
    /\ UNCHANGED <<coreVars, extVars, httpVars, machineVars>>

\* request: WriteJSON on the connection, which fails or writes the frame.
WsRequestWrite(r) ==
    /\ wsReq[r].pc = "write"
    /\ \E ok \in BOOLEAN :
          IF ok
          THEN /\ wsReq' = [wsReq EXCEPT ![r] = [pc |-> "wrote", conn |-> conn]]
               /\ wsStats' = [wsStats EXCEPT !.writes = @ + 1]
          ELSE /\ wsReq' = [wsReq EXCEPT ![r].pc = "writeErr"]
               /\ UNCHANGED wsStats
    /\ UNCHANGED <<ready, openRequest, msgBuffer, conn, wsLoop, errChan, wsCtx>>
    /\ UNCHANGED <<coreVars, extVars, httpVars, machineVars>>

\* request: openRequest.Add(1).
WsRequestAdd(r) ==
    /\ wsReq[r].pc = "wrote"
    /\ openRequest' = openRequest + 1
    /\ wsStats' = [wsStats EXCEPT !.adds = @ + 1]
    /\ wsReq' = [wsReq EXCEPT ![r].pc = "wait"]
    /\ UNCHANGED <<ready, msgBuffer, conn, wsLoop, errChan, wsCtx>>
    /\ UNCHANGED <<coreVars, extVars, httpVars, machineVars>>

\* request: the receive from msgBuffer, the only way out of the wait.
WsRequestReceive(r) ==
    /\ wsReq[r].pc = "wait"
    /\ msgBuffer # <<>>
    /\ msgBuffer' = Tail(msgBuffer)
    /\ wsReq' = [wsReq EXCEPT ![r].pc = "returned"]
    /\ UNCHANGED <<ready, openRequest, conn, wsLoop, errChan, wsCtx, wsStats>>
    /\ UNCHANGED <<coreVars, extVars, httpVars, machineVars>>

WsRequestNext(r) ==
    \/ WsRequestStart(r)
    \/ WsRequestWrite(r)
    \/ WsRequestAdd(r)
    \/ WsRequestReceive(r)

\* The owner starts listen.
WsListen ==
    /\ wsLoop.pc = "idle"
    /\ wsLoop' = [wsLoop EXCEPT !.pc = "dial"]
    /\ UNCHANGED <<ready, openRequest, msgBuffer, conn, wsReq, errChan, wsCtx, wsStats>>
    /\ UNCHANGED <<coreVars, extVars, httpVars, machineVars>>

\* readLoop: the dial.  It fails when the context is cancelled and may fail
\* otherwise; a failure is returned to listen, which reports it.
WsDial ==
    /\ wsLoop.pc = "dial"
    /\ wsStats.dials < MaxDials
    /\ wsStats' = [wsStats EXCEPT !.dials = @ + 1]
    /\ \E ok \in (IF wsCtx THEN {FALSE} ELSE BOOLEAN) :
          IF ok
          THEN /\ conn' = conn + 1
               /\ ready' = TRUE
               /\ wsLoop' = [wsLoop EXCEPT !.pc = "top"]
               /\ UNCHANGED errChan
          ELSE /\ ready' = FALSE
               /\ errChan' = Append(errChan, "bad")
               /\ wsLoop' = [wsLoop EXCEPT !.pc = "delay"]
               /\ UNCHANGED conn
    /\ UNCHANGED <<openRequest, msgBuffer, wsReq, wsCtx>>
    /\ UNCHANGED <<coreVars, extVars, httpVars, machineVars>>

\* listen: the reconnect delay is over.
WsDelay ==
    /\ wsLoop.pc = "delay"
    /\ wsLoop' = [wsLoop EXCEPT !.pc = "dial"]
    /\ UNCHANGED <<ready, openRequest, msgBuffer, conn, wsReq, errChan, wsCtx, wsStats>>
    /\ UNCHANGED <<coreVars, extVars, httpVars, machineVars>>

\* readLoop: the check of the context at the top of the loop; a cancelled
\* context ends readLoop without an error, and listen with it.
WsTop ==
    /\ wsLoop.pc = "top"
    /\ IF wsCtx
       THEN ready' = FALSE /\ wsLoop' = [wsLoop EXCEPT !.pc = "returned"]
       ELSE UNCHANGED ready /\ wsLoop' = [wsLoop EXCEPT !.pc = "read"]
    /\ UNCHANGED <<openRequest, msgBuffer, conn, wsReq, errChan, wsCtx, wsStats>>
    /\ UNCHANGED <<coreVars, extVars, httpVars, machineVars>>

\* readLoop: ReadMessage returns a frame; a text frame is followed by the
\* load of the counter.
ReadFrame(type) ==
    /\ wsLoop.pc = "read"
    /\ wsStats' = [wsStats EXCEPT !.frames = @ + 1]
    /\ LET outcome == FrameOutcome(type, openRequest)
       IN  /\ wsLoop' = [pc |-> IF outcome = "deliver" THEN "deliver" ELSE "top",
                         frame |-> type,
                         openRequest |-> IF type = "text" THEN openRequest ELSE 0]
           /\ errChan' = IF outcome \in {"unsupported", "undelivered"}
                         THEN Append(errChan, outcome) ELSE errChan
    /\ UNCHANGED <<ready, openRequest, msgBuffer, conn, wsReq, wsCtx>>
    /\ UNCHANGED <<coreVars, extVars, httpVars, machineVars>>

WsReadFrame ==
    /\ wsStats.frames < MaxFrames
    /\ \E type \in FrameTypes : ReadFrame(type)

\* readLoop: the send of the frame on msgBuffer.
WsDeliver ==
    /\ wsLoop.pc = "deliver"
    /\ Len(msgBuffer) < MsgBufferCap
    /\ msgBuffer' = Append(msgBuffer, wsLoop.frame)
    /\ wsStats' = [wsStats EXCEPT !.placed = @ + 1]
    /\ wsLoop' = [wsLoop EXCEPT !.pc = "store"]
    /\ UNCHANGED <<ready, openRequest, conn, wsReq, errChan, wsCtx>>
    /\ UNCHANGED <<coreVars, extVars, httpVars, machineVars>>

\* readLoop: openRequest.Store(openRequest - 1), with the value loaded before.
WsStore ==
    /\ wsLoop.pc = "store"
    /\ openRequest' = wsLoop.openRequest - 1
    /\ wsLoop' = [wsLoop EXCEPT !.pc = "top"]
    /\ UNCHANGED <<ready, msgBuffer, conn, wsReq, errChan, wsCtx, wsStats>>
    /\ UNCHANGED <<coreVars, extVars, httpVars, machineVars>>

\* readLoop: ReadMessage fails, the connection is lost; readLoop returns the
\* error, clearing the ready flag, and listen reports it.
WsReadError ==
    /\ wsLoop.pc = "read"
    /\ ready' = FALSE
    /\ errChan' = Append(errChan, "bad")
    /\ wsLoop' = [wsLoop EXCEPT !.pc = "delay"]
    /\ UNCHANGED <<openRequest, msgBuffer, conn, wsReq, wsCtx, wsStats>>
    /\ UNCHANGED <<coreVars, extVars, httpVars, machineVars>>

\* The owner cancels the context passed to listen.
WsCancel ==
    /\ ~wsCtx
    /\ wsLoop.pc # "idle"
    /\ wsCtx' = TRUE
    /\ UNCHANGED <<ready, openRequest, msgBuffer, conn, wsReq, wsLoop, errChan, wsStats>>
    /\ UNCHANGED <<coreVars, extVars, httpVars, machineVars>>

WsNext ==
    \/ \E r \in Requests : WsRequestNext(r)
    \/ WsListen
    \/ WsDial
    \/ WsDelay
    \/ WsTop
    \/ WsReadFrame
    \/ WsDeliver
    \/ WsStore
    \/ WsReadError
    \/ WsCancel

WsSpec == ClientInit /\ [][WsNext]_vars

(***************************************************************************)
(* WsSeqSpec: the websocket transport with callers that make their request *)
(* calls strictly one after another on an established connection, and a    *)
(* server that sends one text frame for every request frame it got and     *)
(* nothing else.  The connection is not lost and listen is not cancelled.  *)
(***************************************************************************)
\* The caller is the one of call frame 1.  A call is made once the
\* connection is up.
SeqRequestStart ==
    /\ ready
    /\ WsRequestStart(1)

\* The frame is written: the connection is up.
SeqRequestWrite ==
    /\ WsRequestWrite(1)
    /\ wsReq'[1].pc = "wrote"

SeqRequestAdd == WsRequestAdd(1)

SeqRequestReceive == WsRequestReceive(1)

\* The call has returned its reply; the caller goes on to its next call.
SeqNextCall ==
    /\ wsReq[1].pc = "returned"
    /\ wsStats.writes < MaxSeqCalls
    /\ wsReq' = [wsReq EXCEPT ![1] = [pc |-> "idle", conn |-> 0]]
    /\ UNCHANGED <<ready, openRequest, msgBuffer, conn, wsLoop, errChan, wsCtx, wsStats>>
    /\ UNCHANGED <<coreVars, extVars, httpVars, machineVars>>

\* The dial succeeds.
SeqDial ==
    /\ WsDial
    /\ ready'

\* The frame read is the reply to a request frame written before.
SeqReadFrame ==
    /\ wsStats.frames < wsStats.writes
    /\ ReadFrame("text")

WsSeqNext ==
    \/ SeqRequestStart
    \/ SeqRequestWrite
    \/ SeqRequestAdd
    \/ SeqRequestReceive
    \/ SeqNextCall
    \/ WsListen
    \/ SeqDial
    \/ WsTop
    \/ SeqReadFrame
    \/ WsDeliver
    \/ WsStore

WsSeqSpec == ClientInit /\ [][WsSeqNext]_vars

(***************************************************************************)
(* HttpSpec: the long-polling transport's request, a function of what the  *)
(* encoder, the request constructor and the HTTP client give it.  A call   *)
(* that panics ends the caller: no call follows it.                        *)
(***************************************************************************)
StatusCodes == {200, 404, 500}
RedirectCodes == {302}
Bodies == {"json", "text"}
NoResponse == [status |-> 0, body |-> "nil", readable |-> FALSE]

\* What client.Do hands back: a response and no error; no response and an
\* error (the POST failed); or, when the redirect policy fails, the last
\* response together with an error.
DoResults ==
    [err : {FALSE}, response : [status : StatusCodes, body : Bodies, readable : BOOLEAN]]
    \cup {[err |-> TRUE, response |-> NoResponse]}
    \cup [err : {TRUE}, response : [status : RedirectCodes, body : {"text"}, readable : {TRUE}]]

\* A call's circumstances; what follows a failed step is never looked at.
HttpInputs ==
    {[encode |-> FALSE, newRequest |-> FALSE, do |-> [err |-> TRUE, response |-> NoResponse]],
     [encode |-> TRUE, newRequest |-> FALSE, do |-> [err |-> TRUE, response |-> NoResponse]]}
    \cup [encode : {TRUE}, newRequest : {TRUE}, do : DoResults]

BadResponseError(status, body) ==
    [err |-> "BadResponse", status |-> status, body |-> body, ms |-> "nil"]
PlainError(what) == [err |-> what, status |-> 0, body |-> "nil", ms |-> "nil"]
Panic == [err |-> "panic", status |-> 0, body |-> "nil", ms |-> "nil"]

\* parseResponse.
parseResponse(resp) ==
    IF resp.status # 200
    THEN IF ~resp.readable
         THEN BadResponseError(resp.status, "nil")
         ELSE BadResponseError(resp.status, resp.body)
    ELSE IF ~resp.readable \/ resp.body # "json"
         THEN PlainError("decode")
         ELSE [err |-> "nil", status |-> 0, body |-> "nil", ms |-> resp.body]

\* request.  The error branch after client.Do reads the status of the
\* response, which is a nil pointer when the POST got no response.
requestHttp(in) ==
    IF ~in.encode THEN PlainError("encode")
    ELSE IF ~in.newRequest THEN PlainError("newRequest")
    ELSE IF in.do.err
         THEN IF in.do.response = NoResponse
              THEN Panic
              ELSE BadResponseError(in.do.response.status, "nil")
         ELSE parseResponse(in.do.response)

HttpRequest ==
    /\ Len(httpRet) < MaxHttpCalls
    /\ \A i \in 1..Len(httpRet) : httpRet[i].ret # Panic
    /\ \E in \in HttpInputs :
          httpRet' = Append(httpRet, [input |-> in, ret |-> requestHttp(in)])
    /\ UNCHANGED <<coreVars, extVars, wsVars, machineVars>>

HttpNext == HttpRequest

HttpSpec == ClientInit /\ [][HttpNext]_vars

(***************************************************************************)
(* MachineSpec: the connection state machine on its own, fed every         *)
(* sequence of events.                                                     *)
(***************************************************************************)
Events == {"handshakeSent", "successfullyConnected", "disconnectSent"}

FireEvent(event) ==
    /\ Len(smEvents) < MaxEvents
    /\ LET ev == ProcessEvent(stateMachine, event)
       IN  /\ stateMachine' = ev.state
           /\ smRet' = ev.ok
    /\ smEvents' = Append(smEvents, event)
    /\ UNCHANGED <<clientID, callRet, chanVars, loopVars, closed, ctxDone, subscriptions,
                   ignoreError, errors, dpc, nSub, nUnsub, crashed, workload>>
    /\ UNCHANGED <<extVars, wsVars, httpVars>>

MachineNext == \E event \in Events : FireEvent(event)

MachineSpec == ClientInit /\ [][MachineNext]_vars

(***************************************************************************)
(* Properties.                                                             *)
(***************************************************************************)

\* The maximal runs of equal channel of a reply, in order.
RECURSIVE Runs(_)
Runs(ms) ==
    IF ms = <<>> THEN <<>>
    ELSE LET n == CHOOSE k \in 1..Len(ms) :
                    /\ \A i \in 1..k : ms[i].channel = ms[1].channel
                    /\ k = Len(ms) \/ ms[k + 1].channel # ms[1].channel
         IN  <<SubSeq(ms, 1, n)>> \o Runs(SubSeq(ms, n + 1, Len(ms)))

\* The loop has handled a Connect reply to the end: no error, no blocked
\* or panicking send.
ConnectHandled == callRet.op = "Connect" /\ callRet.err = NoErr /\ pc = "select"

\* C1: after a Connect reply whose channels are all registered has been
\* handled, every maximal run of equal channel of the reply, the last one
\* included, has been delivered as one batch to the queue registered for its
\* channel, in the order of the reply.
C1_EveryRunDelivered ==
    LET runs == Runs(callRet.resp.ms)
    IN  (ConnectHandled
         /\ \A i \in 1..Len(runs) : Registered(subscriptions, runs[i][1].channel))
        => delivered = [i \in 1..Len(runs) |->
                           Delivery(Get(subscriptions, runs[i][1].channel).req.msgChan,
                                    runs[i])]

\* Requests the transport is serving: the loop's call and the caller's.
InFlight == (IF pc \in CallPcs THEN 1 ELSE 0) + (IF dpc = "inflight" THEN 1 ELSE 0)

\* C2: whatever the callers do, at most one transport request is in flight,
\* the protocol client being called from the loop goroutine only.
C2_OneRequestInFlight == InFlight <= 1

\* C3: once Client.Disconnect has returned on a running session (its
\* request was sent, so the handshake of start had succeeded), the loop
\* (the context not being cancelled) makes no further protocol call, reports
\* no error and neither blocks nor fails: from its select it only goes on to
\* a clean exit.
C3_DisconnectStopsLoop ==
    [][(dpc = "done" /\ pc = "select" /\ ~ctxDone')
        => (pc' \in {"select", "exitClean"} /\ errors' = errors)]_vars

\* C4: when the loop has seen the cancelled context, it has exited, the
\* cancellation error is the last one on the error stream, and start has
\* made exactly one Disconnect call.
C4_CancelDisconnectsOnce ==
    ctxDone => /\ pc = "exitErr"
               /\ errors # <<>>
               /\ errors[Len(errors)].type = "ContextCanceled"
               /\ startDisconnects = 1

\* C5: Connect, Subscribe, Unsubscribe and Disconnect, called while the
\* state is not CONNECTED or the client-id is empty, fail with the cause
\* ClientNotConnected, send nothing and change neither state nor client-id.
C5_NotConnectedCallsFail ==
    [][(callRet'.op \in GuardedOps /\ (stateMachine # "CONNECTED" \/ clientID = ""))
        => /\ callRet'.err.cause = "ClientNotConnected"
           /\ ~callRet'.sent
           /\ stateMachine' = stateMachine
           /\ clientID' = clientID]_vars

C5_Witness ==
    /\ callRet.op \in GuardedOps
    /\ callRet.err.cause = "ClientNotConnected"
    /\ stateMachine = "CONNECTING" /\ clientID # ""

\* C6: Handshake classifies the reply: two or more messages fail
\* TooManyMessages; no message on the handshake channel fails BadChannel; one
\* unsuccessful handshake message fails with the server's error; one
\* successful handshake message succeeds, and only then are the client-id
\* set to the reply's and the state moved to CONNECTED.
C6_HandshakeClassifies ==
    [][(callRet'.op = "Handshake" /\ callRet'.sent /\ callRet'.resp.ok)
        => LET ms == callRet'.resp.ms
               e == callRet'.err
               single == Len(ms) = 1 /\ ms[1].channel = MetaHandshake
           IN  /\ Len(ms) >= 2 => e = Err("HandshakeFailed", "TooManyMessages")
               /\ (Len(ms) = 0 \/ (Len(ms) = 1 /\ ms[1].channel # MetaHandshake))
                     => e = Err("HandshakeFailed", "BadChannel")
               /\ (single /\ ~ms[1].successful) => e = Err("HandshakeError", "server")
               /\ (single /\ ms[1].successful)
                     => /\ e = NoErr
                        /\ clientID' = ms[1].clientID
                        /\ stateMachine' = "CONNECTED"
               /\ e # NoErr => (clientID' = clientID /\ stateMachine' # "CONNECTED")]_vars

C6_Witness ==
    /\ callRet.op = "Handshake" /\ callRet.err = NoErr
    /\ Len(callRet.resp.ms) = 1
    /\ stateMachine = "CONNECTED" /\ clientID = "c1"

\* The ids of the subscribe requests enqueued so far, and where a request
\* can be: in the queue, with the loop during a drain, or in a Subscribe call.
Enqueued == 1..nSub
InDrain == IF pc \in {"subDrain", "spin"} THEN Ids(subReqs) \ {0} ELSE {}
NoRepeats(seq) == \A i, j \in 1..Len(seq) : seq[i] = seq[j] => i = j

\* The loop is in a Subscribe call, or has just come back from one.
SubscribeCalled == pc = "subCall" \/ callRet.op = "Subscribe"

\* C7: a Subscribe call carries every request that was in the queue when
\* the loop picked one up, with exactly their channels; every request ever
\* enqueued is either still queued, or being drained, or carried by exactly
\* one Subscribe call; a request still queued during a call is in no call.
C7_SubscribeCoalesces ==
    /\ SubscribeCalled =>
          /\ Ids(pickup) \subseteq Ids(subReqs)
          /\ channels = ChannelsOf(subReqs)
          /\ Ids(subReqs) \subseteq SeqToSet(covered)
    /\ NoRepeats(covered)
    /\ \A n \in Enqueued :
          /\ n \in Ids(subscribeRequestChannel) \cup InDrain \cup SeqToSet(covered)
          /\ ~(n \in Ids(subscribeRequestChannel) /\ n \in SeqToSet(covered))
          /\ ~(n \in Ids(subscribeRequestChannel) /\ n \in InDrain)
          /\ ~(n \in InDrain /\ n \in SeqToSet(covered))

\* Two requests coalesced into one call while a third arrives after the drain.
C7_Witness ==
    /\ pc = "subCall"
    /\ Len(subReqs) = 2 /\ Len(pickup) = 2
    /\ Len(subscribeRequestChannel) = 1

\* C8: every entry of the subscriptions map other than the reserved one
\* holds the queue of a request whose Subscribe call returned success, under
\* that request's channel; a failed call adds nothing.
C8_RegisteredOnlyAfterSuccess ==
    \A e \in subscriptions :
        e.ch # MetaConnect =>
            /\ e.req.n \in confirmed
            /\ e.req.subscription = e.ch
            /\ e.req.msgChan = e.req.n

\* A failed call after which the map still has only the reserved entry,
\* and then a successful one.
C8_Witness ==
    /\ \E i \in 1..Len(errors) : errors[i].type = "SubscriptionFailed"
    /\ \E e \in subscriptions : e.ch # MetaConnect
    /\ \E n \in SeqToSet(covered) : n \notin confirmed

\* The requests of a batch that found their channel taken.
Refused(reqs, subs) ==
    {i \in 1..Len(reqs) : Entry(reqs[i].subscription, reqs[i]) \notin subs}

\* C9: the map holds at most one queue per channel; when Subscribe returns,
\* every entry already in the map stays as it is, every request whose channel
\* is taken yields an AlreadySubscribed error; with that error ignored, the
\* errors are sent on the error stream in order, poll does not return, and
\* every request of the batch whose channel was free is registered; every
\* batch delivered goes to the queue the map holds for its channel.
C9_DuplicateKeepsFirst ==
    /\ [](\A k \in 1..Len(delivered) :
            LET ch == delivered[k].batch[1].channel
            IN  /\ Registered(subscriptions, ch)
                /\ delivered[k].q = Get(subscriptions, ch).req.msgChan)
    /\ [][(pc = "subCall" /\ pc' # "subCall")
        => /\ subscriptions \subseteq subscriptions'
           /\ \A e1, e2 \in subscriptions' : e1.ch = e2.ch => e1 = e2
           /\ (callRet'.err = NoErr /\ "AlreadySubscribed" \in ignoreError)
                 => LET dup == Refused(subReqs, subscriptions')
                    IN  /\ pc' # "exitErr"
                        /\ \A i \in 1..Len(subReqs) :
                              Registered(subscriptions', subReqs[i].subscription)
                        /\ \A i \in dup :
                              \/ Registered(subscriptions, subReqs[i].subscription)
                              \/ \E j \in 1..(i - 1) :
                                    /\ j \notin dup
                                    /\ subReqs[j].subscription = subReqs[i].subscription
                        /\ Len(errors') = Len(errors) + Cardinality(dup)
                        /\ \A k \in Len(errors) + 1..Len(errors') :
                              errors'[k].type = "AlreadySubscribed"]_vars

\* A batch in which a refused duplicate is followed by a request that is
\* registered, the error being ignored.
C9_Witness ==
    /\ pc = "select" /\ callRet.op = "Subscribe" /\ callRet.err = NoErr
    /\ \E i, j \in 1..Len(subReqs) :
          /\ i < j
          /\ i \in Refused(subReqs, subscriptions)
          /\ j \notin Refused(subReqs, subscriptions)
    /\ errors # <<>> /\ errors[Len(errors)].type = "AlreadySubscribed"

\* The loop took a step in which a protocol call returned.
LoopReturned == callRet' # NoCall /\ pc' # pc

\* C10: an error of Subscribe or Unsubscribe is sent on the error stream,
\* and poll goes on exactly when the predicate accepts it and returns
\* otherwise; an error of Connect or Handshake is sent on the error stream
\* and poll returns, whatever the predicate says.
C10_ErrorPolicy ==
    [][(LoopReturned /\ callRet'.err # NoErr /\ callRet'.op # "Disconnect")
        => /\ errors' = Append(errors, callRet'.err)
           /\ IF callRet'.op \in {"Subscribe", "Unsubscribe"}
                 /\ callRet'.err.type \in ignoreError
              THEN pc' = "select"
              ELSE pc' = "exitErr"]_vars

\* An ignored Unsubscribe error after which the loop is back in its select,
\* under a predicate that is not the default.
C10_Witness ==
    /\ callRet.op = "Unsubscribe" /\ callRet.err # NoErr
    /\ pc = "select"
    /\ errors # <<>> /\ errors[Len(errors)] = callRet.err

\* The calls of a hook in the log of the last request.
Calls(ext, dir, m) == {i \in 1..Len(hookLog) : hookLog[i] = Hook(ext, dir, m)}
SendAt == CHOOSE i \in 1..Len(hookLog) : hookLog[i] = TransportCall
Position(list, ext) == CHOOSE i \in 1..Len(list) : list[i] = ext

\* C11: UseExtension appends an instance that is not in the list and
\* succeeds, and fails AlreadyRegistered leaving the list as it is when the
\* instance is there; a request calls the transport once; every registered
\* extension's outgoing hook has run exactly once per outgoing message, before
\* the transport call; when the transport answered, its incoming hook has run
\* exactly once per reply message, after the transport call; the hooks of one
\* direction visit the extensions in registration order.
C11_ExtensionsOncePerMessage ==
    /\ [][\A ext \in Extensions :
            (extRet'.op = "UseExtension" /\ extRet'.ext = ext /\ <<exts, extRet>>' # <<exts, extRet>>)
            => IF ext \in SeqToSet(exts)
               THEN extRet'.err = "AlreadyRegistered" /\ exts' = exts
               ELSE extRet'.err = "nil" /\ exts' = Append(exts, ext)]_vars
    /\ [](NoRepeats(exts))
    /\ [](extRet.op = "request" =>
            /\ Cardinality(Calls("none", "request", 0)) = 1
            /\ \A ext \in Extensions, m \in 1..MaxBatch :
                  /\ Cardinality(Calls(ext, "Outgoing", m))
                        = IF ext \in SeqToSet(exts) /\ m <= extRet.out THEN 1 ELSE 0
                  /\ Cardinality(Calls(ext, "Incoming", m))
                        = IF ext \in SeqToSet(exts) /\ extRet.err = "nil" /\ m <= extRet.in
                          THEN 1 ELSE 0
            /\ \A i \in 1..Len(hookLog) :
                  /\ hookLog[i].dir = "Outgoing" => i < SendAt
                  /\ hookLog[i].dir = "Incoming" => i > SendAt
            /\ \A i, j \in 1..Len(hookLog) :
                  (i < j /\ hookLog[i].dir = hookLog[j].dir /\ hookLog[i].dir # "request")
                  => Position(exts, hookLog[i].ext) <= Position(exts, hookLog[j].ext))

\* Three extensions registered and a request with two messages each way:
\* six outgoing hook calls, the transport call, six incoming ones.
C11_Witness ==
    /\ Len(exts) = 3
    /\ extRet.op = "request" /\ extRet.err = "nil"
    /\ extRet.out = 2 /\ extRet.in = 2
    /\ Len(hookLog) = 13

\* C12: a request call that finds the ready flag false returns NotReady in
\* that step: it writes no frame, leaves the counter and the reply buffer as
\* they are, and never waits.
C12_NotReadyFailsAtOnce ==
    [][\A r \in Requests :
          (wsReq[r].pc = "idle" /\ wsReq'[r].pc # "idle" /\ ~ready)
          => /\ wsReq'[r].pc = "notReady"
             /\ wsStats' = wsStats
             /\ openRequest' = openRequest
             /\ msgBuffer' = msgBuffer]_vars

\* One call refused before the first dial, one after the read loop has
\* exited on a lost connection.
C12_Witness ==
    /\ wsReq[1] = [pc |-> "notReady", conn |-> 0]
    /\ wsReq[2] = [pc |-> "notReady", conn |-> 1]
    /\ wsLoop.pc = "delay"

\* The reports of frames on the side error channel.
FrameReports == {i \in 1..Len(errChan) : errChan[i] \in {"unsupported", "undelivered"}}

\* C13: a frame read has exactly one outcome.  A non-text frame is reported
\* as unsupported, not buffered, and leaves the counter alone; a text frame
\* read with the counter at zero is reported as undelivered and not buffered;
\* a text frame read with a positive counter is placed in the reply buffer by
\* the loop's next step and not reported.  Every frame read is accounted for.
C13_FrameHasOneOutcome ==
    /\ [][wsStats'.frames = wsStats.frames + 1
            => LET type == wsLoop'.frame
               IN  /\ type # "text"
                        => /\ errChan' = Append(errChan, "unsupported")
                           /\ msgBuffer' = msgBuffer /\ openRequest' = openRequest
                           /\ wsLoop'.pc = "top"
                   /\ (type = "text" /\ openRequest = 0)
                        => /\ errChan' = Append(errChan, "undelivered")
                           /\ msgBuffer' = msgBuffer
                           /\ wsLoop'.pc = "top"
                   /\ (type = "text" /\ openRequest > 0)
                        => /\ errChan' = errChan
                           /\ wsLoop'.pc = "deliver"]_vars
    /\ [][(wsLoop.pc = "deliver" /\ wsLoop' # wsLoop)
            => /\ msgBuffer' = Append(msgBuffer, "text")
               /\ errChan' = errChan]_vars
    /\ [](wsStats.frames = wsStats.placed + Cardinality(FrameReports)
                               + (IF wsLoop.pc = "deliver" THEN 1 ELSE 0))

\* Three frames read: one buffered, one undelivered, one unsupported.
C13_Witness ==
    /\ wsStats.frames = 3 /\ wsStats.placed = 1
    /\ \E i, j \in FrameReports : errChan[i] = "unsupported" /\ errChan[j] = "undelivered"

\* C19: but between the read loop's delivery of a frame and its store, the
\* counter is the number of increments made by request calls minus the
\* number of frames placed in the reply buffer.
C19_CounterIsAddsMinusPlaced ==
    wsLoop.pc # "store" => openRequest + wsStats.placed = wsStats.adds

\* A request call that waits while nothing can wake it any more: the read
\* loop has returned for good and the reply buffer is empty.
Abandoned(r) == wsReq[r].pc = "wait" /\ wsLoop.pc = "returned" /\ msgBuffer = <<>>

\* C20: a request call left waiting when the read loop has ended can still
\* return, and a connection established after a lost one starts with the
\* counter at zero.
C20_WaiterAbandonedOnDrop ==
    /\ [](\A r \in Requests : Abandoned(r) => ENABLED WsRequestNext(r))
    /\ [][(wsLoop.pc = "dial" /\ wsLoop'.pc = "top" /\ conn > 0)
            => openRequest' = 0]_vars

\* C14: every failed long-polling request returns an error value and no
\* messages.  A reply whose status is not 200 returns BadResponse with that
\* status and the body bytes (no bytes when the body could not be read); a
\* POST that got no response returns BadResponse with no body; and no call
\* aborts its caller.
C14_HttpFailuresAreErrors ==
    \A i \in 1..Len(httpRet) :
        LET in == httpRet[i].input
            ret == httpRet[i].ret
            sent == in.encode /\ in.newRequest
        IN  /\ (sent /\ ~in.do.err /\ in.do.response.status # 200)
                 => ret = BadResponseError(in.do.response.status,
                                           IF in.do.response.readable
                                           THEN in.do.response.body ELSE "nil")
            /\ (sent /\ in.do.err /\ in.do.response = NoResponse)
                 => /\ ret.err = "BadResponse"
                    /\ ret.body = "nil"
                    /\ ret.ms = "nil"
            /\ ret.err # "panic"

\* The events that are legal in a state.
Legal(state) ==
    CASE state = "UNCONNECTED" -> {"handshakeSent", "disconnectSent"}
      [] state = "CONNECTING" -> {"successfullyConnected", "disconnectSent"}
      [] state = "CONNECTED" -> {"handshakeSent", "disconnectSent"}
      [] state = "DISCONNECTED" -> {}

\* The events fired so far that were accepted, replayed from UNCONNECTED.
RECURSIVE Accepted(_, _)
Accepted(events, state) ==
    IF events = <<>> THEN <<>>
    ELSE LET ev == ProcessEvent(state, Head(events))
         IN  (IF ev.ok THEN <<Head(events)>> ELSE <<>>) \o Accepted(Tail(events), ev.state)

\* C15: over every sequence of events fired from UNCONNECTED, IsConnected is
\* true exactly when the machine is in CONNECTED, which is exactly when the
\* last accepted event is successfullyConnected; an event that is not legal
\* in the current state fails and leaves the state as it was, a legal one is
\* accepted; handshakeSent fired right after handshakeSent fails; and in
\* DISCONNECTED every event fails and the state stays DISCONNECTED.
C15_StateMachineContract ==
    /\ [](LET acc == Accepted(smEvents, "UNCONNECTED")
          IN  /\ IsConnected(stateMachine) <=> stateMachine = "CONNECTED"
              /\ IsConnected(stateMachine)
                   <=> (acc # <<>> /\ acc[Len(acc)] = "successfullyConnected"))
    /\ [][LET event == smEvents'[Len(smEvents')]
          IN  /\ smRet' <=> event \in Legal(stateMachine)
              /\ ~smRet' => stateMachine' = stateMachine
              /\ (event = "handshakeSent" /\ smEvents # <<>>
                     /\ smEvents[Len(smEvents)] = "handshakeSent") => ~smRet'
              /\ stateMachine = "DISCONNECTED"
                   => (~smRet' /\ stateMachine' = "DISCONNECTED")]_vars

\* handshakeSent accepted, handshakeSent refused, the machine disconnected,
\* and an event refused in DISCONNECTED.
C15_Witness ==
    /\ smEvents = <<"handshakeSent", "handshakeSent", "disconnectSent", "successfullyConnected">>
    /\ stateMachine = "DISCONNECTED"
    /\ ~smRet

\* C16: a Disconnect call of the protocol client that succeeds clears the
\* client-id and puts the state machine in DISCONNECTED, and in DISCONNECTED
\* every Connect, Subscribe, Unsubscribe or Disconnect call fails with
\* ClientNotConnected without a request being sent.
C16_DisconnectIsTerminal ==
    /\ [][(callRet'.op = "Disconnect" /\ callRet'.sent /\ callRet'.err = NoErr)
            => (clientID' = "" /\ stateMachine' = "DISCONNECTED")]_vars
    /\ [][(stateMachine = "DISCONNECTED" /\ callRet'.op \in GuardedOps)
            => (~callRet'.sent /\ callRet'.err = NotConnectedErr(callRet'.op))]_vars

\* C17: when the loop takes from the connect-message queue a batch holding a
\* message whose advice says handshake, it enqueues the re-handshake signal
\* without blocking: the step ends with the loop back at its select, from
\* where it can receive the signal.
C17_RehandshakeSignalDoesNotBlock ==
    [][(/\ pc = "select"
        /\ connectMessageChannel # <<>>
        /\ connectMessageChannel' = Tail(connectMessageChannel)
        /\ \E i \in 1..Len(Head(connectMessageChannel)) :
              ShouldHandshake(Head(connectMessageChannel)[i]))
       => pc' = "select"]_vars

\* The channels of a batch.
Batch(chans) == {chans[i] : i \in 1..Len(chans)}

\* C18: the loop that picks an unsubscribe request up takes every queued
\* request after it, one by one and in order, and calls Unsubscribe once,
\* when the queue is empty, with all of them.  When the call succeeds the
\* entries of exactly the batch's channels leave the subscriptions map; when
\* it fails the map is left as it was.
C18_UnsubscribeBatchRemoved ==
    /\ [][(pc = "select" /\ pc' = "unsubDrain" /\ unsubscribeRequestChannel # <<>>)
            => /\ channels' = <<Head(unsubscribeRequestChannel)>>
               /\ unsubscribeRequestChannel' = Tail(unsubscribeRequestChannel)]_vars
    /\ [][(pc = "unsubDrain" /\ pc' = "unsubDrain" /\ channels' # channels)
            => /\ unsubscribeRequestChannel # <<>>
               /\ channels' = Append(channels, Head(unsubscribeRequestChannel))
               /\ unsubscribeRequestChannel' = Tail(unsubscribeRequestChannel)]_vars
    /\ [][(pc = "unsubDrain" /\ pc' = "unsubCall")
            => /\ unsubscribeRequestChannel = <<>>
               /\ Len(channels') = Len(channels)
               /\ Batch(channels') = Batch(channels)]_vars
    /\ [][(pc = "unsubCall" /\ pc' = "unsubCall") => channels' = channels]_vars
    /\ [][(pc = "unsubCall" /\ callRet'.op = "Unsubscribe")
            => IF callRet'.err = NoErr
               THEN subscriptions' = {e \in subscriptions : e.ch \notin Batch(channels)}
               ELSE subscriptions' = subscriptions]_vars

\* A successful Unsubscribe call has removed one of two registrations and
\* left the other.
C18_Witness ==
    /\ callRet.op = "Unsubscribe" /\ callRet.err = NoErr /\ callRet.sent
    /\ pc = "select"
    /\ Cardinality(confirmed) = 2
    /\ Cardinality(subscriptions) = 1

\* C21: a read loop that exits with an error is reported on the side error
\* channel and restarted after the delay; once the context is cancelled the
\* read loop ends without reporting an error, and listen, when it is in its
\* reconnect delay, does not go on to another dial.
C21_ListenStopsOnCancel ==
    /\ [][(wsLoop.pc \in {"dial", "read"} /\ wsLoop'.pc = "delay")
            => errChan' = Append(errChan, "bad")]_vars
    /\ [][(~wsCtx /\ wsLoop.pc = "delay" /\ wsLoop' # wsLoop) => wsLoop'.pc = "dial"]_vars
    /\ [][(wsCtx /\ wsLoop.pc = "dial" /\ wsLoop' # wsLoop)
            => (errChan' = errChan /\ wsLoop'.pc = "returned")]_vars
    /\ [][(wsCtx /\ wsLoop.pc = "delay") => wsLoop'.pc # "dial"]_vars

\* The loop sits in a send that nothing will ever receive.
BlockedInSend == pc \in {"blockedHandshake", "blockedDeliver"}

\* C22: the trigger queue never holds more than one trigger, and a trigger
\* is added only to the empty queue; and a loop that has made a Connect call
\* and is running, with no error, no shutdown and no cancellation, is never
\* blocked for good, so that another Connect can follow.
C22_ConnectCycleSustained ==
    /\ [](connectRequestChannel <= ConnectRequestCap)
    /\ [][connectRequestChannel' > connectRequestChannel
            => (connectRequestChannel = 0 /\ connectRequestChannel' = 1)]_vars
    /\ []((SessionLive /\ ~closed /\ ~ctxDone /\ nConn >= 1) => ~BlockedInSend)

\* C23: a Handshake call that fails after its request went out leaves the
\* state machine in CONNECTING and the client-id as it was.  In CONNECTING
\* IsConnected is false, and every call is refused without a request being
\* sent and without a change of state or client-id: Connect, Subscribe,
\* Unsubscribe and Disconnect with ClientNotConnected, Handshake with
\* HandshakeFailed on the invalid transition.
C23_FailedHandshakeIsFinal ==
    /\ [][(callRet'.op = "Handshake" /\ callRet'.sent /\ callRet'.err # NoErr)
            => (stateMachine' = "CONNECTING" /\ clientID' = clientID)]_vars
    /\ [](stateMachine = "CONNECTING" => ~IsConnected(stateMachine))
    /\ [][stateMachine = "CONNECTING"
            => /\ stateMachine' = "CONNECTING" /\ clientID' = clientID
               /\ ~callRet'.sent
               /\ callRet'.err = IF callRet'.op = "Handshake"
                                  THEN Err("HandshakeFailed", "InvalidTransition")
                                  ELSE NotConnectedErr(callRet'.op)]_vars

\* A handshake that failed on a client holding a client-id, and a later
\* Handshake refused on the transition.
C23_Witness ==
    /\ stateMachine = "CONNECTING" /\ clientID # ""
    /\ callRet.op = "Handshake" /\ ~callRet.sent
    /\ callRet.err = Err("HandshakeFailed", "InvalidTransition")

\* C24: with request calls made one after another on an established
\* connection and one text frame sent per request, no reply is reported as
\* undelivered on the side error channel, and once every reply has been read
\* and handed on, no call is left waiting.
C24_SequentialRequestsGetReplies ==
    /\ \A i \in 1..Len(errChan) : errChan[i] # "undelivered"
    /\ (wsLoop.pc = "read" /\ wsStats.frames = wsStats.writes /\ msgBuffer = <<>>)
         => wsReq[1].pc # "wait"

====
